---- MODULE Spec2Model ----
(***************************************************************************)
(* Realtime course-selection engine of cca: the per-user WebSocket session *)
(* (handleConn), the Y/N message handlers (messageChooseCourse,            *)
(* messageUnchooseCourse) and the global mode switch (setState).           *)
(*                                                                         *)
(* Every action is one atomic access to shared state (the atomic mode      *)
(* cell, the context, the database, the per-course lock, the registry)     *)
(* together with the goroutine-local code that follows it.                 *)
(***************************************************************************)
EXTENDS Integers, FiniteSets, Sequences, TLC

(* ---------------------------- bounds ----------------------------------- *)
NumUsers == 2
NumSessions == 2
NumCourses == 2
MaxSeats == 1
MaxPending == 2
MaxReqs == 3
MaxChanges == 2
MaxFrame == 4
MaxSets == 3
MaxWakes == 3

Users == 1..NumUsers
(* The empty userid handleWs is left with when its lookup found no row.    *)
Anon == NumUsers + 1
(* Keys of cancelPool and of course.Usems.                                 *)
UserIDs == Users \cup {Anon}
Sessions == 1..NumSessions
CourseIDs == 1..NumCourses
(* A course id that courses.Load does not find.                            *)
NoCourse == NumCourses + 1
(* Stands for a Y or N frame with len(mar) # 2.                            *)
BadArity == NumCourses + 2
(* Stands for a Y or N frame whose mar[1] strconv.ParseInt rejects.        *)
BadID == NumCourses + 3

(* --------------------------- catalogue --------------------------------- *)
(* courseT.Group: courses 1 and 2 share a group, 3 and 4 the next one.     *)
CourseGroup(c) == (c + 1) \div 2
(* courseT.Max: seat capacity.                                             *)
CourseMax(c) == MaxSeats
(* numCourses                                                              *)
numCourses == NumCourses

VARIABLES
    state,            \* atomic mode cell: 0 closed, 1 read-only, 2 open
    dbState,          \* misc row ('state', value)
    admPc,            \* position of the running setState call
    admNew,           \* its newState argument
    Selected,         \* course.Selected
    choices,          \* committed rows of table choices, as <<userid, courseid>>
    cancelPool,       \* userID -> session whose cancel func is stored (0: none)
    usemOwner,        \* userID -> session whose usems sit in course.Usems (0: none)
    usemCount,        \* global usemCount
    usemSet,          \* session -> courses whose usem of that session holds a wake
    propQ,            \* course -> spawned propagateSelectedUpdate goroutines not yet run
    pc,               \* session -> position in handleConn and its handlers
    user,             \* session -> userID (0 before the connection is accepted)
    cancelled,        \* session -> newCtx is done
    userCourseGroups, \* session -> set of groups
    req,              \* session -> course id of the request being handled (0: none)
    reply,            \* session -> last frame written by a handler, <<kind, courseid>>
    sawStop,          \* session -> a STOP frame was delivered and no START since
    hist,             \* observer: the finished requests, in order of their replies
    logging,          \* observer: whether hist is kept in this behaviour
    fwd,              \* session -> courses whose forwarder waits to send on usemParent
    owed,             \* observer: session -> courses signalled and no M frame written since
    auth,             \* session -> frame handleWs wrote before calling handleConn
    final,            \* session -> cancellation frames written, by task
    msg,              \* the frame handed to splitMsg
    parsed,           \* what splitMsg made of msg
    ch,               \* usemT: course -> items in the channel of that usem
    sets,             \* observer: course -> set() calls since the last receive
    wakes,            \* observer: course -> receives from the usem's channel
    readerRun,        \* session -> its reader goroutine was started and has not returned
    fwdRun            \* session -> courses whose forwarder goroutine has not returned

vars == <<state, dbState, admPc, admNew, Selected, choices, cancelPool,
          usemOwner, usemCount, usemSet, propQ, pc, user, cancelled,
          userCourseGroups, req, reply, sawStop, hist, logging, fwd, owed,
          auth, final, msg, parsed, ch, sets, wakes, readerRun, fwdRun>>

dbVars == <<dbState, choices>>
admVars == <<admPc, admNew>>
usemVars == <<usemOwner, usemCount, usemSet, propQ>>

obsVars == <<hist, logging>>
sigVars == <<fwd, owed>>
splitVars == <<msg, parsed>>
usemTVars == <<ch, sets, wakes>>
taskVars == <<readerRun, fwdRun>>
extVars == <<sigVars, auth, final, splitVars, usemTVars, taskVars>>

(* handleConn is returning an error that wraps context.Canceled.           *)
RetCanceled == <<"retErr", "context.Canceled">>

(* splitMsg has not run.                                                   *)
NotParsed == [st |-> "none", mar |-> <<>>]

NoReply == <<"none", 0>>

(* Positions at which a session holds an open transaction with an          *)
(* uncommitted INSERT of <<user, req>>.                                     *)
TxOpen == {"Yadmit", "Ycommit", "Yrollback"}

(* Positions inside a Y or N handler.                                      *)
InHandler == {"Yctx", "Yinsert", "Yadmit", "Ycommit", "Yrollback",
              "Nctx", "Ndelete", "Ndecr"}

(* Sessions in their select loop (a handler runs inside the loop).         *)
Attached(s) == pc[s] \in {"loop"} \cup InHandler

(* Sessions that have stored their usems and started their forwarders and  *)
(* have not begun their teardown.                                          *)
Subscribed(s) == pc[s] = "populate" \/ Attached(s)

(* Mutant: newCtx is done only through its own cancel func.                *)
ctxDoneOwnCancel(s) == cancelled[s]

(* newCtx of session s is done: its cancel func was invoked, or handleWs    *)
(* has returned, which ends the request context that newCtx derives from   *)
(* (part_003:57, part_002:140-150).                                        *)
ctxDone(s) == cancelled[s] \/ pc[s] = "closed"

(* ------------------------- pure helpers -------------------------------- *)
(* The argument of reportError for a request the handler cannot resolve    *)
(* to a course (wsm.go:117-129, 306-318).                                  *)
badRequest(verb, r) ==
    CASE r = BadArity -> <<"E:Invalid number of arguments for " \o verb, 0>>
      [] r = BadID -> <<"E:Course ID must be an integer", 0>>
      [] OTHER -> <<"E:no such course", 0>>

(* Mutant: the session starts with an empty set whatever the table holds.  *)
populateNothing(u) == {}

(* populateUserCourseGroups: groups of the user's committed choices.       *)
populateUserCourseGroups(u) ==
    {CourseGroup(c) : c \in {d \in CourseIDs : <<u, d>> \in choices}}

(* writeText on newCtx: fails once the context is done.                    *)
writeText(s) == ~cancelled[s]

(* wsm.go:138 group check                                                  *)
groupConflict(s, c) == CourseGroup(c) \in userCourseGroups[s]

(* INSERT answered with a unique violation: the row is committed.          *)
uniqueViolation(u, c) == <<u, c>> \in choices

(* INSERT waits while another transaction holds the same key uncommitted.  *)
insertBlocked(s) ==
    \E t \in Sessions \ {s} :
        pc[t] \in TxOpen /\ user[t] = user[s] /\ req[t] = req[s]

(* Mutant: the admission test keeps the last seat free.                    *)
admissionOkOffByOne(c) == Selected[c] + 1 < CourseMax(c)

(* Mutant: the admission test lets one more in.                            *)
admissionOkLeq(c) == Selected[c] <= CourseMax(c)

(* wsm.go:200 admission test inside the critical section                   *)
admissionOk(c) == Selected[c] < CourseMax(c)

(* Mutant: the DELETE is taken to have removed a row whenever it ran.      *)
rowsAffectedAlways(u, c) == 1

(* ct.RowsAffected() of the DELETE                                         *)
rowsAffected(u, c) == IF <<u, c>> \in choices THEN 1 ELSE 0

(* go propagateSelectedUpdate(course): one more goroutine to run.  At most *)
(* MaxPending of them are told apart per course; set() is idempotent, so   *)
(* further ones add no wake.                                               *)
spawnPropagate(c) == [propQ EXCEPT ![c] = IF @ < MaxPending THEN @ + 1 ELSE @]

(* decrementSelectedAndPropagate: the decrement under SelectedLock.        *)
decrementSelected(c) ==
    [Selected EXCEPT ![c] = IF @ = 0 THEN 0 ELSE @ - 1]

(* ----------------------------- splitMsg -------------------------------- *)
(* Bytes of a frame: a space, a colon and any other byte.                  *)
Alphabet == {" ", ":", "a"}

(* The frames of at most MaxFrame bytes.                                   *)
Frames == UNION {[1..n -> Alphabet] : n \in 0..MaxFrame}

(* The for loop of splitMsg at byte i (1-based) of b, with mar and elem as *)
(* built so far (part_002:161-177).  Reading the byte after the last one   *)
(* is an index out of range, which panics.                                 *)
RECURSIVE splitLoop(_, _, _, _)
splitLoop(b, i, mar, elem) ==
    IF i > Len(b)
    THEN [st |-> "ok", mar |-> Append(mar, elem)]
    ELSE IF b[i] = " "
         THEN IF i + 1 > Len(b)
              THEN [st |-> "panic", mar |-> <<>>]
              ELSE IF b[i + 1] = ":"
                   THEN [st |-> "ok",
                         mar |-> mar \o <<elem, SubSeq(b, i + 2, Len(b))>>]
                   ELSE splitLoop(b, i + 1, Append(mar, elem), <<>>)
         ELSE splitLoop(b, i + 1, mar, Append(elem, b[i]))

splitMsg(b) == splitLoop(b, 1, <<>>, <<>>)

(* ------------------------------ usemT ---------------------------------- *)
(* usemT.init: make(chan struct{}, 1), the capacity of the channel.        *)
usemCap == 1

(* Mutant: a send that is always taken, as on a channel that never fills.  *)
setAlways(n) == n + 1

(* usemT.set on a channel holding n items: the send is taken when the      *)
(* buffer has room, else the default case (part_001:31-36).                *)
set(n) == IF n < usemCap THEN n + 1 ELSE n

(* ----------------------------- Init ------------------------------------ *)
(* After loadState and setupCourses: no connection yet, Selected equal to  *)
(* the number of rows per course.                                          *)
InitCore(rows, log) ==
    /\ state \in 0..2
    /\ dbState = state
    /\ admPc = "idle"
    /\ admNew = 0
    /\ choices = rows
    /\ Selected = [c \in CourseIDs |->
                      Cardinality({u \in Users : <<u, c>> \in rows})]
    /\ cancelPool = [u \in UserIDs |-> 0]
    /\ usemOwner = [u \in UserIDs |-> 0]
    /\ usemCount = 0
    /\ usemSet = [s \in Sessions |-> {}]
    /\ propQ = [c \in CourseIDs |-> 0]
    /\ pc = [s \in Sessions |-> "free"]
    /\ user = [s \in Sessions |-> 0]
    /\ cancelled = [s \in Sessions |-> FALSE]
    /\ userCourseGroups = [s \in Sessions |-> {}]
    /\ req = [s \in Sessions |-> 0]
    /\ reply = [s \in Sessions |-> NoReply]
    /\ sawStop = [s \in Sessions |-> FALSE]
    /\ hist = <<>>
    /\ logging = log
    /\ fwd = [s \in Sessions |-> {}]
    /\ owed = [s \in Sessions |-> {}]
    /\ auth = [s \in Sessions |-> "none"]
    /\ final = [s \in Sessions |-> {}]
    /\ parsed = NotParsed
    /\ ch = [c \in CourseIDs |-> 0]
    /\ sets = [c \in CourseIDs |-> 0]
    /\ wakes = [c \in CourseIDs |-> 0]
    /\ readerRun = [s \in Sessions |-> FALSE]
    /\ fwdRun = [s \in Sessions |-> {}]

(* No frame has been received yet.                                         *)
InitWith(rows, log) ==
    /\ InitCore(rows, log)
    /\ msg = <<>>

(* A fresh installation: no choices yet.                                   *)
Init == InitWith({}, FALSE)

(* Tables a clean run can have left: at most Max rows per course and at    *)
(* most one row per user and group.                                        *)
CleanRows ==
    {rows \in SUBSET (Users \X CourseIDs) :
        /\ \A c \in CourseIDs :
               Cardinality({u \in Users : <<u, c>> \in rows}) <= CourseMax(c)
        /\ \A u \in Users, c \in CourseIDs, d \in CourseIDs :
               (<<u, c>> \in rows /\ <<u, d>> \in rows
                   /\ CourseGroup(c) = CourseGroup(d)) => c = d}

(* Leave a handler: back to the select loop, or out of handleConn.         *)
Finish(s, next, r) ==
    /\ pc' = [pc EXCEPT ![s] = next]
    /\ req' = [req EXCEPT ![s] = 0]
    /\ reply' = [reply EXCEPT ![s] = r]

(* Observer: when the step ends the handler of a "verb c" request of       *)
(* session s, its reply and the state it leaves are appended to hist.      *)
Log(s, verb, c) ==
    /\ hist' = IF logging /\ pc'[s] \in {"loop", "deferUsems"}
               THEN Append(hist, [s |-> s, verb |-> verb, c |-> c,
                                  r |-> reply'[s][1],
                                  chg |-> (Selected' # Selected
                                              \/ choices' # choices),
                                  sel |-> Selected',
                                  rows |-> choices',
                                  grp |-> userCourseGroups'[s]])
               ELSE hist
    /\ UNCHANGED logging


(* mar = splitMsg(errbytes.bytes) (part_003:268)                           *)
SplitMsg ==
    /\ parsed = NotParsed
    /\ parsed' = splitMsg(msg)
    /\ UNCHANGED <<state, dbVars, admVars, Selected, cancelPool, usemVars,
                   pc, user, cancelled, userCourseGroups, req, reply,
                   sawStop, msg>>
    /\ UNCHANGED obsVars
    /\ UNCHANGED <<sigVars, auth, final, usemTVars, taskVars>>

(* usem.set() on the usem of course c of one session's usems map.          *)
UsemSet(c) ==
    /\ sets[c] < MaxSets
    /\ ch' = [ch EXCEPT ![c] = set(@)]
    /\ sets' = [sets EXCEPT ![c] = @ + 1]
    /\ UNCHANGED wakes
    /\ UNCHANGED <<state, dbVars, admVars, Selected, cancelPool, usemVars,
                   pc, user, cancelled, userCourseGroups, req, reply,
                   sawStop>>
    /\ UNCHANGED obsVars
    /\ UNCHANGED <<sigVars, auth, final, splitVars, taskVars>>

(* A receive from the usem's channel returns (<-usem.ch, part_003:125).    *)
UsemWait(c) ==
    /\ wakes[c] < MaxWakes
    /\ ch[c] > 0
    /\ ch' = [ch EXCEPT ![c] = @ - 1]
    /\ sets' = [sets EXCEPT ![c] = 0]
    /\ wakes' = [wakes EXCEPT ![c] = @ + 1]
    /\ UNCHANGED <<state, dbVars, admVars, Selected, cancelPool, usemVars,
                   pc, user, cancelled, userCourseGroups, req, reply,
                   sawStop>>
    /\ UNCHANGED obsVars
    /\ UNCHANGED <<sigVars, auth, final, splitVars, taskVars>>

(* --------------------------- handleWs ---------------------------------- *)
(* The lookups of handleWs on a new connection (part_002:90-127) and what  *)
(* follows.  cookie is "missing" (no session cookie), "unknown" (no row in *)
(* sessions), "dberror" (the query fails) or "valid" (the row of user u).  *)
(* With a missing cookie "U" is written and handleWs returns.  In the      *)
(* other three cases handleWs goes on to call handleConn with the userid   *)
(* variable, which is still empty unless the row was found; the step ends  *)
(* after cancelPool.Load and the call of the prior cancel func.            *)
HandleWs(s, cookie, u) ==
    /\ pc[s] = "free"
    /\ \A t \in Sessions : t < s => pc[t] # "free"
    /\ auth' = [auth EXCEPT ![s] =
                   CASE cookie = "missing" -> "U"
                     [] cookie = "unknown" -> "U"
                     [] cookie = "dberror" -> "E:Database error"
                     [] cookie = "valid" -> "ok"]
    /\ IF cookie = "missing"
       THEN /\ pc' = [pc EXCEPT ![s] = "closed"]
            /\ UNCHANGED <<user, cancelled>>
       ELSE LET userid == IF cookie = "valid" THEN u ELSE Anon
            IN  /\ user' = [user EXCEPT ![s] = userid]
                /\ cancelled' = IF cancelPool[userid] # 0
                                THEN [cancelled EXCEPT ![cancelPool[userid]] = TRUE]
                                ELSE cancelled
                /\ pc' = [pc EXCEPT ![s] = "store"]
    /\ UNCHANGED <<state, dbVars, admVars, Selected, cancelPool, usemVars,
                   userCourseGroups, req, reply, sawStop>>
    /\ UNCHANGED obsVars
    /\ UNCHANGED <<sigVars, final, splitVars, usemTVars, taskVars>>

(* ------------------------- handleConn ---------------------------------- *)
(* Entry of handleConn for a new connection of user u: cancelPool.Load and *)
(* the call of the prior cancel func.  Connection slots and user ids are   *)
(* taken in order (they are interchangeable).                              *)
HandleConnLoad(s, u) ==
    /\ pc[s] = "free"
    /\ \A t \in Sessions : t < s => pc[t] # "free"
    /\ \A v \in Users : v < u => \E t \in Sessions : user[t] = v
    /\ user' = [user EXCEPT ![s] = u]
    /\ cancelled' = IF cancelPool[u] # 0
                    THEN [cancelled EXCEPT ![cancelPool[u]] = TRUE]
                    ELSE cancelled
    /\ pc' = [pc EXCEPT ![s] = "store"]
    /\ UNCHANGED <<state, dbVars, admVars, Selected, cancelPool, usemVars,
                   userCourseGroups, req, reply, sawStop>>
    /\ UNCHANGED obsVars
    /\ UNCHANGED extVars

(* cancelPool.Store(userID, &newCancel)                                    *)
HandleConnStore(s) ==
    /\ pc[s] = "store"
    /\ cancelPool' = [cancelPool EXCEPT ![user[s]] = s]
    /\ pc' = [pc EXCEPT ![s] = "subscribe"]
    /\ UNCHANGED <<state, dbVars, admVars, Selected, usemVars, user,
                   cancelled, userCourseGroups, req, reply, sawStop>>
    /\ UNCHANGED obsVars
    /\ UNCHANGED extVars

(* usemCount += numCourses; course.Usems.Store(userID, usem) per course,   *)
(* and one forwarder goroutine per usem is started (part_003:84-140).      *)
HandleConnSubscribe(s) ==
    /\ pc[s] = "subscribe"
    /\ usemCount' = usemCount + numCourses
    /\ usemOwner' = [usemOwner EXCEPT ![user[s]] = s]
    /\ fwdRun' = [fwdRun EXCEPT ![s] = CourseIDs]
    /\ pc' = [pc EXCEPT ![s] = "populate"]
    /\ UNCHANGED <<state, dbVars, admVars, Selected, cancelPool, usemSet,
                   propQ, user, cancelled, userCourseGroups, req, reply,
                   sawStop>>
    /\ UNCHANGED obsVars
    /\ UNCHANGED <<sigVars, auth, final, splitVars, usemTVars, readerRun>>

(* populateUserCourseGroups(newCtx, ...) succeeds; the reader goroutine is *)
(* started and the select loop entered (part_003:146-222).                 *)
HandleConnPopulate(s) ==
    /\ pc[s] = "populate"
    /\ ~cancelled[s]
    /\ userCourseGroups' =
           [userCourseGroups EXCEPT ![s] = populateUserCourseGroups(user[s])]
    /\ readerRun' = [readerRun EXCEPT ![s] = TRUE]
    /\ pc' = [pc EXCEPT ![s] = "loop"]
    /\ UNCHANGED <<state, dbVars, admVars, Selected, cancelPool, usemVars,
                   user, cancelled, req, reply, sawStop>>
    /\ Log(s, "attach", 0)
    /\ UNCHANGED <<sigVars, auth, final, splitVars, usemTVars, fwdRun>>

(* Mutant: a populate failure returns past the deferred usem teardown.     *)
HandleConnPopulateFailNoDefer(s) ==
    /\ pc[s] = "populate"
    /\ Finish(s, "deferCancel", <<"E:populate", 0>>)
    /\ UNCHANGED <<state, dbVars, admVars, Selected, cancelPool, usemVars,
                   user, cancelled, userCourseGroups, sawStop>>
    /\ UNCHANGED obsVars
    /\ UNCHANGED extVars

(* populateUserCourseGroups fails (database error or newCtx done).         *)
HandleConnPopulateFail(s) ==
    /\ pc[s] = "populate"
    /\ Finish(s, "deferUsems", <<"E:populate", 0>>)
    /\ UNCHANGED <<state, dbVars, admVars, Selected, cancelPool, usemVars,
                   user, cancelled, userCourseGroups, sawStop>>
    /\ UNCHANGED obsVars
    /\ UNCHANGED extVars

(* select: case <-newCtx.Done()                                            *)
LoopCancelled(s) ==
    /\ pc[s] = "loop"
    /\ cancelled[s]
    /\ pc' = [pc EXCEPT ![s] = "deferUsems"]
    /\ final' = [final EXCEPT ![s] = @ \cup {RetCanceled}]
    /\ UNCHANGED <<state, dbVars, admVars, Selected, cancelPool, usemVars,
                   user, cancelled, userCourseGroups, req, reply, sawStop>>
    /\ UNCHANGED obsVars
    /\ UNCHANGED <<sigVars, auth, splitVars, usemTVars, taskVars>>

(* select: case errbytes := <-recv with errbytes.err != nil                *)
LoopRecvErr(s) ==
    /\ pc[s] = "loop"
    /\ pc' = [pc EXCEPT ![s] = "deferUsems"]
    /\ UNCHANGED <<state, dbVars, admVars, Selected, cancelPool, usemVars,
                   user, cancelled, userCourseGroups, req, reply, sawStop>>
    /\ UNCHANGED obsVars
    /\ UNCHANGED extVars

(* The reader goroutine of session s, with an error or a frame from        *)
(* c.Read in hand, finds newCtx done in its select, writes its frame and   *)
(* returns (part_003:187-218).  The reader runs once the session is in its *)
(* loop; its steps during the teardown are left out.                       *)
ReaderCancelled(s, got) ==
    /\ Attached(s)
    /\ cancelled[s]
    /\ readerRun[s]
    /\ \A f \in final[s] : f[1] # "reader"
    /\ readerRun' = [readerRun EXCEPT ![s] = FALSE]
    /\ final' = [final EXCEPT ![s] = @ \cup
                    {<<"reader", IF got = "error"
                                 THEN "E :Context canceled"
                                 ELSE "E :Context cancelled">>}]
    /\ UNCHANGED <<state, dbVars, admVars, Selected, cancelPool, usemVars,
                   pc, user, cancelled, userCourseGroups, req, reply,
                   sawStop>>
    /\ UNCHANGED obsVars
    /\ UNCHANGED <<sigVars, auth, splitVars, usemTVars, fwdRun>>

(* Second defer of handleConn: course.Usems.Delete(userID) per course and  *)
(* usemCount -= numCourses.                                                *)
DeferUsems(s) ==
    /\ pc[s] = "deferUsems"
    /\ usemOwner' = [usemOwner EXCEPT ![user[s]] = 0]
    /\ usemCount' = usemCount - numCourses
    /\ pc' = [pc EXCEPT ![s] = "deferCancel"]
    /\ UNCHANGED <<state, dbVars, admVars, Selected, cancelPool, usemSet,
                   propQ, user, cancelled, userCourseGroups, req, reply,
                   sawStop>>
    /\ UNCHANGED obsVars
    /\ UNCHANGED extVars

(* Mutant: the teardown deletes the entry of its user whatever it holds.   *)
DeferCancelDelete(s) ==
    /\ pc[s] = "deferCancel"
    /\ cancelPool' = [cancelPool EXCEPT ![user[s]] = 0]
    /\ pc' = [pc EXCEPT ![s] = "closed"]
    /\ usemSet' = [usemSet EXCEPT ![s] = {}]
    /\ userCourseGroups' = [userCourseGroups EXCEPT ![s] = {}]
    /\ cancelled' = [cancelled EXCEPT ![s] = FALSE]
    /\ reply' = [reply EXCEPT ![s] = NoReply]
    /\ sawStop' = [sawStop EXCEPT ![s] = FALSE]
    /\ fwd' = [fwd EXCEPT ![s] = {}]
    /\ owed' = [owed EXCEPT ![s] = {}]
    /\ final' = [final EXCEPT ![s] =
                    IF RetCanceled \in @
                    THEN (@ \ {RetCanceled})
                             \cup {<<"main", "E :Context canceled">>}
                    ELSE @]
    /\ UNCHANGED <<state, dbVars, admVars, Selected, usemOwner, usemCount,
                   propQ, user, req>>
    /\ UNCHANGED obsVars
    /\ UNCHANGED <<auth, splitVars, usemTVars, taskVars>>

(* First defer of handleConn: cancelPool.CompareAndDelete(userID,          *)
(* &newCancel) and, when the returned error wraps context.Canceled,        *)
(* writeText(ctx, c, "E :Context canceled") (part_003:69-80); handleConn   *)
(* returns.                                                                *)
DeferCancel(s) ==
    /\ pc[s] = "deferCancel"
    /\ cancelPool' = IF cancelPool[user[s]] = s
                     THEN [cancelPool EXCEPT ![user[s]] = 0]
                     ELSE cancelPool
    /\ pc' = [pc EXCEPT ![s] = "closed"]
    /\ usemSet' = [usemSet EXCEPT ![s] = {}]
    /\ userCourseGroups' = [userCourseGroups EXCEPT ![s] = {}]
    /\ cancelled' = [cancelled EXCEPT ![s] = FALSE]
    /\ reply' = [reply EXCEPT ![s] = NoReply]
    /\ sawStop' = [sawStop EXCEPT ![s] = FALSE]
    /\ fwd' = [fwd EXCEPT ![s] = {}]
    /\ owed' = [owed EXCEPT ![s] = {}]
    /\ final' = [final EXCEPT ![s] =
                    IF RetCanceled \in @
                    THEN (@ \ {RetCanceled})
                             \cup {<<"main", "E :Context canceled">>}
                    ELSE @]
    /\ UNCHANGED <<state, dbVars, admVars, Selected, usemOwner, usemCount,
                   propQ, user, req>>
    /\ UNCHANGED obsVars
    /\ UNCHANGED <<auth, splitVars, usemTVars, taskVars>>


(* --------------------- messageChooseCourse ----------------------------- *)
(* select: case errbytes := <-recv, mar[0] = "Y", mar[1] = c; the handler  *)
(* loads the mode cell (wsm.go:95).                                        *)
YStart(s, c) ==
    /\ pc[s] = "loop"
    /\ IF state # 2
       THEN IF writeText(s)
            THEN Finish(s, "loop", <<"E:not open", 0>>)
            ELSE Finish(s, "deferUsems", NoReply)
       ELSE /\ pc' = [pc EXCEPT ![s] = "Yctx"]
            /\ req' = [req EXCEPT ![s] = c]
            /\ reply' = [reply EXCEPT ![s] = NoReply]
    /\ UNCHANGED <<state, dbVars, admVars, Selected, cancelPool, usemVars,
                   user, cancelled, userCourseGroups, sawStop>>
    /\ Log(s, "Y", c)
    /\ UNCHANGED extVars

(* ctx.Done() check, arity and integer checks, course lookup and group     *)
(* check (wsm.go:107-148).  A frame of the wrong arity, an id that is not  *)
(* an integer and an id that courses.Load does not find end the handler    *)
(* with reportError(...), and handleConn returns that error                *)
(* (part_003:292-294).                                                     *)
YCheck(s) ==
    /\ pc[s] = "Yctx"
    /\ IF cancelled[s]
       THEN Finish(s, "deferUsems", NoReply)
       ELSE IF req[s] \notin CourseIDs
            THEN Finish(s, "deferUsems", badRequest("Y", req[s]))
            ELSE IF groupConflict(s, req[s])
                 THEN Finish(s, "loop", <<"R:Group conflict", req[s]>>)
                 ELSE /\ pc' = [pc EXCEPT ![s] = "Yinsert"]
                      /\ UNCHANGED <<req, reply>>
    /\ final' = IF cancelled[s]
                THEN [final EXCEPT ![s] = @ \cup {RetCanceled}]
                ELSE final
    /\ UNCHANGED <<state, dbVars, admVars, Selected, cancelPool, usemVars,
                   user, cancelled, userCourseGroups, sawStop>>
    /\ Log(s, "Y", req[s])
    /\ UNCHANGED <<sigVars, auth, splitVars, usemTVars, taskVars>>

(* db.Begin and the INSERT (wsm.go:151-190).  A unique violation is        *)
(* answered "Y <id>"; the deferred Rollback ends the transaction.          *)
YInsert(s) ==
    /\ pc[s] = "Yinsert"
    /\ ~cancelled[s]
    /\ ~insertBlocked(s)
    /\ IF uniqueViolation(user[s], req[s])
       THEN Finish(s, "loop", <<"Y", req[s]>>)
       ELSE /\ pc' = [pc EXCEPT ![s] = "Yadmit"]
            /\ UNCHANGED <<req, reply>>
    /\ UNCHANGED <<state, dbVars, admVars, Selected, cancelPool, usemVars,
                   user, cancelled, userCourseGroups, sawStop>>
    /\ Log(s, "Y", req[s])
    /\ UNCHANGED extVars

(* db.Begin or the INSERT fails with another error (wsm.go:152-156,        *)
(* 187-189); a done context makes every database call fail.                *)
YInsertFail(s) ==
    /\ pc[s] = "Yinsert"
    /\ Finish(s, "deferUsems", <<"E:insert", 0>>)
    /\ UNCHANGED <<state, dbVars, admVars, Selected, cancelPool, usemVars,
                   user, cancelled, userCourseGroups, sawStop>>
    /\ Log(s, "Y", req[s])
    /\ UNCHANGED extVars

(* Admission critical section under course.SelectedLock (wsm.go:192-205)   *)
(* and, when admitted, go propagateSelectedUpdate(course) (wsm.go:208).    *)
YAdmit(s) ==
    /\ pc[s] = "Yadmit"
    /\ IF admissionOk(req[s])
       THEN /\ Selected' = [Selected EXCEPT ![req[s]] = @ + 1]
            /\ propQ' = spawnPropagate(req[s])
            /\ pc' = [pc EXCEPT ![s] = "Ycommit"]
       ELSE /\ pc' = [pc EXCEPT ![s] = "Yrollback"]
            /\ UNCHANGED <<Selected, propQ>>
    /\ UNCHANGED <<state, dbVars, admVars, cancelPool, usemOwner, usemCount,
                   usemSet, user, cancelled, userCourseGroups, req, reply,
                   sawStop>>
    /\ Log(s, "Y", req[s])
    /\ UNCHANGED extVars

(* tx.Commit succeeds: the row is durable, the group is recorded and       *)
(* "Y <id>" is written (wsm.go:209, 224-237).                              *)
YCommit(s) ==
    /\ pc[s] = "Ycommit"
    /\ ~cancelled[s]
    /\ choices' = choices \cup {<<user[s], req[s]>>}
    /\ userCourseGroups' =
           [userCourseGroups EXCEPT ![s] = @ \cup {CourseGroup(req[s])}]
    /\ Finish(s, "loop", <<"Y", req[s]>>)
    /\ UNCHANGED <<state, dbState, admVars, Selected, cancelPool, usemVars,
                   user, cancelled, sawStop>>
    /\ Log(s, "Y", req[s])
    /\ UNCHANGED extVars

(* Mutant: a failed commit is reported without the compensation.           *)
YCommitFailNoDecrement(s) ==
    /\ pc[s] = "Ycommit"
    /\ Finish(s, "deferUsems", IF writeText(s) THEN <<"E:commit", 0>> ELSE NoReply)
    /\ UNCHANGED <<state, dbVars, admVars, Selected, cancelPool, usemVars,
                   user, cancelled, userCourseGroups, sawStop>>
    /\ Log(s, "Y", req[s])
    /\ UNCHANGED extVars

(* Mutant: the compensation decrements and signals nobody.                 *)
YCommitFailNoSignal(s) ==
    /\ pc[s] = "Ycommit"
    /\ Selected' = decrementSelected(req[s])
    /\ Finish(s, "deferUsems", IF writeText(s) THEN <<"E:commit", 0>> ELSE NoReply)
    /\ UNCHANGED <<state, dbVars, admVars, cancelPool, usemVars,
                   user, cancelled, userCourseGroups, sawStop>>
    /\ Log(s, "Y", req[s])
    /\ UNCHANGED extVars

(* tx.Commit fails: decrementSelectedAndPropagate, then a terminal error   *)
(* (wsm.go:210-222).                                                       *)
YCommitFail(s) ==
    /\ pc[s] = "Ycommit"
    /\ Selected' = decrementSelected(req[s])
    /\ propQ' = spawnPropagate(req[s])
    /\ Finish(s, "deferUsems", IF writeText(s) THEN <<"E:commit", 0>> ELSE NoReply)
    /\ UNCHANGED <<state, dbVars, admVars, cancelPool, usemOwner, usemCount,
                   usemSet, user, cancelled, userCourseGroups, sawStop>>
    /\ Log(s, "Y", req[s])
    /\ UNCHANGED extVars

(* Mutant: the declined branch commits the transaction before answering.   *)
YRollbackCommits(s) ==
    /\ pc[s] = "Yrollback"
    /\ choices' = choices \cup {<<user[s], req[s]>>}
    /\ IF writeText(s)
       THEN Finish(s, "loop", <<"R:Full", req[s]>>)
       ELSE Finish(s, "deferUsems", NoReply)
    /\ UNCHANGED <<state, dbState, admVars, Selected, cancelPool, usemVars,
                   user, cancelled, userCourseGroups, sawStop>>
    /\ Log(s, "Y", req[s])
    /\ UNCHANGED extVars

(* Mutant: the declined branch signals the subscribers of the course.      *)
YRollbackSignals(s) ==
    /\ pc[s] = "Yrollback"
    /\ propQ' = spawnPropagate(req[s])
    /\ IF writeText(s)
       THEN Finish(s, "loop", <<"R:Full", req[s]>>)
       ELSE Finish(s, "deferUsems", NoReply)
    /\ UNCHANGED <<state, dbVars, admVars, Selected, cancelPool, usemOwner,
                   usemCount, usemSet, user, cancelled, userCourseGroups,
                   sawStop>>
    /\ Log(s, "Y", req[s])
    /\ UNCHANGED extVars

(* Declined: tx.Rollback and "R <id> :Full" (wsm.go:249-264)               *)
YRollback(s) ==
    /\ pc[s] = "Yrollback"
    /\ IF writeText(s)
       THEN Finish(s, "loop", <<"R:Full", req[s]>>)
       ELSE Finish(s, "deferUsems", NoReply)
    /\ UNCHANGED <<state, dbVars, admVars, Selected, cancelPool, usemVars,
                   user, cancelled, userCourseGroups, sawStop>>
    /\ Log(s, "Y", req[s])
    /\ UNCHANGED extVars

(* Declined and tx.Rollback fails (wsm.go:251-255); the transaction is     *)
(* discarded with its connection.                                          *)
YRollbackFail(s) ==
    /\ pc[s] = "Yrollback"
    /\ Finish(s, "deferUsems", <<"E:rollback", 0>>)
    /\ UNCHANGED <<state, dbVars, admVars, Selected, cancelPool, usemVars,
                   user, cancelled, userCourseGroups, sawStop>>
    /\ Log(s, "Y", req[s])
    /\ UNCHANGED extVars

(* -------------------- messageUnchooseCourse ---------------------------- *)
(* select: case errbytes := <-recv, mar[0] = "N", mar[1] = c; the handler  *)
(* loads the mode cell (wsm.go:284).                                       *)
NStart(s, c) ==
    /\ pc[s] = "loop"
    /\ IF state # 2
       THEN IF writeText(s)
            THEN Finish(s, "loop", <<"E:not open", 0>>)
            ELSE Finish(s, "deferUsems", NoReply)
       ELSE /\ pc' = [pc EXCEPT ![s] = "Nctx"]
            /\ req' = [req EXCEPT ![s] = c]
            /\ reply' = [reply EXCEPT ![s] = NoReply]
    /\ UNCHANGED <<state, dbVars, admVars, Selected, cancelPool, usemVars,
                   user, cancelled, userCourseGroups, sawStop>>
    /\ Log(s, "N", c)
    /\ UNCHANGED extVars

(* ctx.Done() check, arity and integer checks and course lookup            *)
(* (wsm.go:296-325); reportError(...) as in messageChooseCourse, and       *)
(* handleConn returns that error (part_003:305-307).                       *)
NCheck(s) ==
    /\ pc[s] = "Nctx"
    /\ IF cancelled[s]
       THEN Finish(s, "deferUsems", NoReply)
       ELSE IF req[s] \notin CourseIDs
            THEN Finish(s, "deferUsems", badRequest("N", req[s]))
            ELSE /\ pc' = [pc EXCEPT ![s] = "Ndelete"]
                 /\ UNCHANGED <<req, reply>>
    /\ final' = IF cancelled[s]
                THEN [final EXCEPT ![s] = @ \cup {RetCanceled}]
                ELSE final
    /\ UNCHANGED <<state, dbVars, admVars, Selected, cancelPool, usemVars,
                   user, cancelled, userCourseGroups, sawStop>>
    /\ Log(s, "N", req[s])
    /\ UNCHANGED <<sigVars, auth, splitVars, usemTVars, taskVars>>

(* The DELETE (wsm.go:327-339); with no row removed "N <id>" is written    *)
(* at once (wsm.go:367).                                                   *)
NDelete(s) ==
    /\ pc[s] = "Ndelete"
    /\ ~cancelled[s]
    /\ IF rowsAffected(user[s], req[s]) # 0
       THEN /\ choices' = choices \ {<<user[s], req[s]>>}
            /\ pc' = [pc EXCEPT ![s] = "Ndecr"]
            /\ UNCHANGED <<req, reply>>
       ELSE /\ Finish(s, "loop", <<"N", req[s]>>)
            /\ UNCHANGED choices
    /\ UNCHANGED <<state, dbState, admVars, Selected, cancelPool, usemVars,
                   user, cancelled, userCourseGroups, sawStop>>
    /\ Log(s, "N", req[s])
    /\ UNCHANGED extVars

(* The DELETE fails (wsm.go:333-337).                                      *)
NDeleteFail(s) ==
    /\ pc[s] = "Ndelete"
    /\ Finish(s, "deferUsems", <<"E:delete", 0>>)
    /\ UNCHANGED <<state, dbVars, admVars, Selected, cancelPool, usemVars,
                   user, cancelled, userCourseGroups, sawStop>>
    /\ Log(s, "N", req[s])
    /\ UNCHANGED extVars

(* Mutant: the release forgets to drop the group from userCourseGroups.    *)
NDecrementKeepsGroup(s) ==
    /\ pc[s] = "Ndecr"
    /\ Selected' = decrementSelected(req[s])
    /\ propQ' = spawnPropagate(req[s])
    /\ IF ~writeText(s)
       THEN Finish(s, "deferUsems", NoReply)
       ELSE IF ~groupConflict(s, req[s])
            THEN Finish(s, "deferUsems", <<"E:inconsistent", 0>>)
            ELSE Finish(s, "loop", <<"N", req[s]>>)
    /\ UNCHANGED <<state, dbVars, admVars, cancelPool, usemOwner, usemCount,
                   usemSet, user, cancelled, userCourseGroups, sawStop>>
    /\ Log(s, "N", req[s])
    /\ UNCHANGED extVars

(* A row was removed: decrementSelectedAndPropagate, the group is dropped  *)
(* from userCourseGroups and "N <id>" is written (wsm.go:339-376).         *)
NDecrement(s) ==
    /\ pc[s] = "Ndecr"
    /\ Selected' = decrementSelected(req[s])
    /\ propQ' = spawnPropagate(req[s])
    /\ IF ~writeText(s)
       THEN /\ Finish(s, "deferUsems", NoReply)
            /\ UNCHANGED userCourseGroups
       ELSE IF ~groupConflict(s, req[s])
            THEN /\ Finish(s, "deferUsems", <<"E:inconsistent", 0>>)
                 /\ UNCHANGED userCourseGroups
            ELSE /\ userCourseGroups' =
                        [userCourseGroups EXCEPT ![s] = @ \ {CourseGroup(req[s])}]
                 /\ Finish(s, "loop", <<"N", req[s]>>)
    /\ UNCHANGED <<state, dbVars, admVars, cancelPool, usemOwner, usemCount,
                   usemSet, user, cancelled, sawStop>>
    /\ Log(s, "N", req[s])
    /\ UNCHANGED extVars

(* ----------------------- update notifier ------------------------------- *)
(* A spawned propagateSelectedUpdate(course) runs: set() on every usem in  *)
(* course.Usems.  Observer: every session that is subscribed and not       *)
(* cancelled is now owed an M frame for the course.                        *)
PropagateRun(c) ==
    /\ propQ[c] > 0
    /\ propQ' = [propQ EXCEPT ![c] = @ - 1]
    /\ usemSet' = [s \in Sessions |->
                     IF \E u \in UserIDs : usemOwner[u] = s
                     THEN usemSet[s] \cup {c}
                     ELSE usemSet[s]]
    /\ owed' = [s \in Sessions |->
                  IF Subscribed(s) /\ ~cancelled[s]
                  THEN owed[s] \cup {c}
                  ELSE owed[s]]
    /\ UNCHANGED <<state, dbVars, admVars, Selected, cancelPool, usemOwner,
                   usemCount, pc, user, cancelled, userCourseGroups, req,
                   reply, sawStop>>
    /\ UNCHANGED obsVars
    /\ UNCHANGED <<fwd, auth, final, splitVars, usemTVars, taskVars>>

(* Mutant: the forwarder forwards the wake and leaves it in the usem.      *)
ForwardTakeKeepsWake(s, c) ==
    /\ Subscribed(s)
    /\ ~cancelled[s]
    /\ c \in usemSet[s]
    /\ c \notin fwd[s]
    /\ fwd' = [fwd EXCEPT ![s] = @ \cup {c}]
    /\ UNCHANGED <<state, dbVars, admVars, Selected, cancelPool, usemVars,
                   pc, user, cancelled, userCourseGroups, req, reply, sawStop>>
    /\ UNCHANGED obsVars
    /\ UNCHANGED <<owed, auth, final, splitVars, usemTVars, taskVars>>

(* The forwarder goroutine of session s for course c receives from usem.ch *)
(* (part_003:125) and then waits to send on usemParent.  Once newCtx is    *)
(* done the forwarder returns.                                             *)
ForwardTake(s, c) ==
    /\ Subscribed(s)
    /\ ~cancelled[s]
    /\ c \in usemSet[s]
    /\ c \notin fwd[s]
    /\ usemSet' = [usemSet EXCEPT ![s] = @ \ {c}]
    /\ fwd' = [fwd EXCEPT ![s] = @ \cup {c}]
    /\ UNCHANGED <<state, dbVars, admVars, Selected, cancelPool, usemOwner,
                   usemCount, propQ, pc, user, cancelled, userCourseGroups,
                   req, reply, sawStop>>
    /\ UNCHANGED obsVars
    /\ UNCHANGED <<owed, auth, final, splitVars, usemTVars, taskVars>>

(* select: case courseID := <-usemParent; sendSelectedUpdate writes        *)
(* "M <courseID> <selected>" (part_003:245-254).                           *)
LoopUpdate(s, c) ==
    /\ pc[s] = "loop"
    /\ c \in fwd[s]
    /\ fwd' = [fwd EXCEPT ![s] = @ \ {c}]
    /\ IF writeText(s)
       THEN /\ owed' = [owed EXCEPT ![s] = @ \ {c}]
            /\ UNCHANGED pc
       ELSE /\ pc' = [pc EXCEPT ![s] = "deferUsems"]
            /\ UNCHANGED owed
    /\ hist' = IF logging /\ writeText(s)
               THEN Append(hist, [s |-> s, verb |-> "M", c |-> c, r |-> "M",
                                  chg |-> FALSE,
                                  sel |-> Selected, rows |-> choices,
                                  grp |-> userCourseGroups[s]])
               ELSE hist
    /\ UNCHANGED <<state, dbVars, admVars, Selected, cancelPool, usemVars,
                   user, cancelled, userCourseGroups, req, reply, sawStop,
                   logging>>
    /\ UNCHANGED <<auth, final, splitVars, usemTVars, taskVars>>

(* The forwarder goroutine of session s for course c finds newCtx done in  *)
(* one of its selects and returns (part_003:122-130).                      *)
ForwarderReturn(s, c) ==
    /\ c \in fwdRun[s]
    /\ ctxDone(s)
    /\ fwdRun' = [fwdRun EXCEPT ![s] = @ \ {c}]
    /\ fwd' = [fwd EXCEPT ![s] = @ \ {c}]
    /\ UNCHANGED <<state, dbVars, admVars, Selected, cancelPool, usemVars,
                   pc, user, cancelled, userCourseGroups, req, reply, sawStop>>
    /\ UNCHANGED obsVars
    /\ UNCHANGED <<owed, auth, final, splitVars, usemTVars, readerRun>>

(* The reader goroutine of session s after handleWs has returned: c.Read   *)
(* fails on the connection that the deferred c.CloseNow closed             *)
(* (part_002:81), nobody receives from recv, newCtx is done and the reader *)
(* returns (part_003:187-210).                                             *)
ReaderReturn(s) ==
    /\ readerRun[s]
    /\ pc[s] = "closed"
    /\ ctxDone(s)
    /\ readerRun' = [readerRun EXCEPT ![s] = FALSE]
    /\ UNCHANGED <<state, dbVars, admVars, Selected, cancelPool, usemVars,
                   pc, user, cancelled, userCourseGroups, req, reply, sawStop>>
    /\ UNCHANGED obsVars
    /\ UNCHANGED <<sigVars, auth, final, splitVars, usemTVars, fwdRun>>

(* ------------------------------ setState ------------------------------- *)
(* setState(ctx, new): the switch (state.go:76-92).  Range stops after the *)
(* first entry because the callback returns false.                         *)
SetStateSwitch(new) ==
    /\ admPc = "idle"
    /\ admNew' = new
    /\ admPc' = "save"
    /\ CASE new = 0 ->
              /\ \/ \E u \in UserIDs :
                       /\ cancelPool[u] # 0
                       /\ cancelled' = [cancelled EXCEPT ![cancelPool[u]] = TRUE]
                 \/ /\ \A u \in UserIDs : cancelPool[u] = 0
                    /\ UNCHANGED cancelled
              /\ UNCHANGED sawStop
         [] new = 1 ->
              /\ sawStop' = [s \in Sessions |-> Attached(s) \/ sawStop[s]]
              /\ UNCHANGED cancelled
         [] new = 2 ->
              /\ sawStop' = [s \in Sessions |-> FALSE]
              /\ UNCHANGED cancelled
    /\ UNCHANGED <<state, dbVars, Selected, cancelPool, usemVars, pc, user,
                   userCourseGroups, req, reply>>
    /\ UNCHANGED obsVars
    /\ UNCHANGED extVars

(* saveStateValue succeeds (state.go:63-73, 93)                            *)
SetStateSave ==
    /\ admPc = "save"
    /\ dbState' = admNew
    /\ admPc' = "store"
    /\ UNCHANGED <<state, admNew, choices, Selected, cancelPool, usemVars, pc,
                   user, cancelled, userCourseGroups, req, reply, sawStop>>
    /\ UNCHANGED obsVars
    /\ UNCHANGED extVars

(* Mutant: a failed saveStateValue still stores the new mode in memory.    *)
SetStateSaveFailStores ==
    /\ admPc = "save"
    /\ admPc' = "idle"
    /\ admNew' = 0
    /\ state' = admNew
    /\ UNCHANGED <<dbVars, Selected, cancelPool, usemVars, pc, user,
                   cancelled, userCourseGroups, req, reply, sawStop>>
    /\ UNCHANGED obsVars
    /\ UNCHANGED extVars

(* saveStateValue fails: setState returns the error (state.go:94-96)       *)
SetStateSaveFail ==
    /\ admPc = "save"
    /\ admPc' = "idle"
    /\ admNew' = 0
    /\ UNCHANGED <<state, dbVars, Selected, cancelPool, usemVars, pc, user,
                   cancelled, userCourseGroups, req, reply, sawStop>>
    /\ UNCHANGED obsVars
    /\ UNCHANGED extVars

(* atomic.StoreUint32(&state, newState) (state.go:97)                      *)
SetStateStore ==
    /\ admPc = "store"
    /\ state' = admNew
    /\ admPc' = "idle"
    /\ admNew' = 0
    /\ UNCHANGED <<dbVars, Selected, cancelPool, usemVars, pc, user,
                   cancelled, userCourseGroups, req, reply, sawStop>>
    /\ UNCHANGED obsVars
    /\ UNCHANGED extVars

(* ------------------------------- Next ---------------------------------- *)
(* Sessions and their Y/N handlers.                                        *)
Next ==
    \/ \E s \in Sessions, u \in Users : HandleConnLoad(s, u)
    \/ \E s \in Sessions : HandleConnStore(s)
    \/ \E s \in Sessions : HandleConnSubscribe(s)
    \/ \E s \in Sessions : HandleConnPopulate(s)
    \/ \E s \in Sessions : HandleConnPopulateFail(s)
    \/ \E s \in Sessions : LoopCancelled(s)
    \/ \E s \in Sessions : LoopRecvErr(s)
    \/ \E s \in Sessions : DeferUsems(s)
    \/ \E s \in Sessions : DeferCancel(s)
    \/ \E s \in Sessions, c \in CourseIDs : YStart(s, c)
    \/ \E s \in Sessions : YCheck(s)
    \/ \E s \in Sessions : YInsert(s)
    \/ \E s \in Sessions : YInsertFail(s)
    \/ \E s \in Sessions : YAdmit(s)
    \/ \E s \in Sessions : YCommit(s)
    \/ \E s \in Sessions : YCommitFail(s)
    \/ \E s \in Sessions : YRollback(s)
    \/ \E s \in Sessions : YRollbackFail(s)
    \/ \E s \in Sessions, c \in CourseIDs : NStart(s, c)
    \/ \E s \in Sessions : NCheck(s)
    \/ \E s \in Sessions : NDelete(s)
    \/ \E s \in Sessions : NDeleteFail(s)
    \/ \E s \in Sessions : NDecrement(s)

Spec == Init /\ [][Next]_vars

(* The mode controller with one connection per user, requests on course 1  *)
(* (the mode gate does not look at the course) and a database that fails   *)
(* only in saveStateValue.                                                 *)
NextMode ==
    \/ \E s \in Sessions \cap Users : HandleConnLoad(s, s)
    \/ \E s \in Sessions : HandleConnStore(s)
    \/ \E s \in Sessions : HandleConnSubscribe(s)
    \/ \E s \in Sessions : HandleConnPopulate(s)
    \/ \E s \in Sessions : HandleConnPopulateFail(s)
    \/ \E s \in Sessions : LoopCancelled(s)
    \/ \E s \in Sessions : DeferUsems(s)
    \/ \E s \in Sessions : DeferCancel(s)
    \/ \E s \in Sessions : YStart(s, 1)
    \/ \E s \in Sessions : YCheck(s)
    \/ \E s \in Sessions : YInsert(s)
    \/ \E s \in Sessions : YInsertFail(s)
    \/ \E s \in Sessions : YAdmit(s)
    \/ \E s \in Sessions : YCommit(s)
    \/ \E s \in Sessions : YCommitFail(s)
    \/ \E s \in Sessions : YRollback(s)
    \/ \E s \in Sessions : NStart(s, 1)
    \/ \E s \in Sessions : NCheck(s)
    \/ \E s \in Sessions : NDelete(s)
    \/ \E s \in Sessions : NDecrement(s)
    \/ \E new \in 0..2 : SetStateSwitch(new)
    \/ SetStateSave
    \/ SetStateSaveFail
    \/ SetStateStore

SpecMode == Init /\ [][NextMode]_vars

(* One connection of user 1 over any clean table, its requests handled    *)
(* one after the other by a database that does not fail; hist is kept.     *)
InitSolo ==
    /\ \E rows \in CleanRows : InitWith(rows, TRUE)
    /\ state = 2

NextSolo ==
    \/ HandleConnLoad(1, 1)
    \/ HandleConnStore(1)
    \/ HandleConnSubscribe(1)
    \/ HandleConnPopulate(1)
    \/ \E c \in CourseIDs : Len(hist) <= MaxReqs /\ YStart(1, c)
    \/ YCheck(1)
    \/ YInsert(1)
    \/ YAdmit(1)
    \/ YCommit(1)
    \/ YRollback(1)
    \/ \E c \in CourseIDs : Len(hist) <= MaxReqs /\ NStart(1, c)
    \/ NCheck(1)
    \/ NDelete(1)
    \/ NDecrement(1)
    \/ \E c \in CourseIDs : PropagateRun(c)

SpecSolo == InitSolo /\ [][NextSolo]_vars

(* Every user opens one connection and sends a single Y, all of them      *)
(* concurrently, on an empty table with a database that does not fail.     *)
InitRace ==
    /\ InitWith({}, TRUE)
    /\ state = 2

(* Session s has had its Y answered.                                       *)
Answered(s) ==
    \E i \in 1..Len(hist) : hist[i].s = s /\ hist[i].verb = "Y"

NextRace ==
    \/ \E s \in Sessions \cap Users : HandleConnLoad(s, s)
    \/ \E s \in Sessions : HandleConnStore(s)
    \/ \E s \in Sessions : HandleConnSubscribe(s)
    \/ \E s \in Sessions : HandleConnPopulate(s)
    \/ \E s \in Sessions, c \in CourseIDs : ~Answered(s) /\ YStart(s, c)
    \/ \E s \in Sessions : YCheck(s)
    \/ \E s \in Sessions : YInsert(s)
    \/ \E s \in Sessions : YAdmit(s)
    \/ \E s \in Sessions : YCommit(s)
    \/ \E s \in Sessions : YRollback(s)

SpecRace == InitRace /\ [][NextRace]_vars

(* The update notifier: connections of one user, Y and N handlers over a   *)
(* database that fails only on a done context, the spawned propagate       *)
(* goroutines, the forwarders and the M frames.                            *)
InitNotify ==
    /\ InitWith({}, FALSE)
    /\ state = 2

(* The steps of session s that need no input from its client.              *)
SessionStep(s) ==
    \/ HandleConnStore(s)
    \/ HandleConnSubscribe(s)
    \/ HandleConnPopulate(s)
    \/ LoopCancelled(s)
    \/ DeferUsems(s)
    \/ DeferCancel(s)
    \/ YCheck(s)
    \/ YInsert(s)
    \/ YAdmit(s)
    \/ YCommit(s)
    \/ YRollback(s)
    \/ NCheck(s)
    \/ NDelete(s)
    \/ NDecrement(s)
    \/ cancelled[s] /\ HandleConnPopulateFail(s)
    \/ cancelled[s] /\ YInsertFail(s)
    \/ cancelled[s] /\ YCommitFail(s)
    \/ cancelled[s] /\ NDeleteFail(s)

(* The connections are those of user 1 and the requests are for course 1:  *)
(* the usems and forwarders of different courses do not interact.          *)
NextNotify ==
    \/ \E s \in Sessions : HandleConnLoad(s, 1)
    \/ \E s \in Sessions : SessionStep(s)
    \/ \E s \in Sessions : YStart(s, 1)
    \/ \E s \in Sessions : NStart(s, 1)
    \/ \E c \in CourseIDs : PropagateRun(c)
    \/ \E s \in Sessions, c \in CourseIDs : ForwardTake(s, c)
    \/ \E s \in Sessions, c \in CourseIDs : LoopUpdate(s, c)

(* Goroutines that can run do run; the select of the loop picks among its  *)
(* ready cases at random, so a forwarder that keeps waiting on usemParent  *)
(* is received from.                                                       *)
FairNotify ==
    /\ \A s \in Sessions : WF_vars(SessionStep(s))
    /\ \A c \in CourseIDs : WF_vars(PropagateRun(c))
    /\ \A s \in Sessions, c \in CourseIDs : WF_vars(ForwardTake(s, c))
    /\ \A s \in Sessions, c \in CourseIDs : SF_vars(LoopUpdate(s, c))

SpecNotify == InitNotify /\ [][NextNotify]_vars /\ FairNotify

(* Coalescing: every user has one connection in its loop before the first  *)
(* request; at most MaxChanges requests are sent; the database does not    *)
(* fail; hist is kept and also holds the M frames.                          *)
InitCoalesce ==
    /\ InitWith({}, TRUE)
    /\ state = 2

(* Requests sent so far.                                                   *)
Started ==
    Cardinality({i \in 1..Len(hist) : hist[i].verb \in {"Y", "N"}})
        + Cardinality({s \in Sessions : pc[s] \in InHandler})

CanSend ==
    /\ \A s \in Sessions \cap Users : Attached(s)
    /\ Started < MaxChanges

NextCoalesce ==
    \/ \E s \in Sessions \cap Users : HandleConnLoad(s, s)
    \/ \E s \in Sessions : HandleConnStore(s)
    \/ \E s \in Sessions : HandleConnSubscribe(s)
    \/ \E s \in Sessions : HandleConnPopulate(s)
    \/ \E s \in Sessions, c \in CourseIDs : CanSend /\ YStart(s, c)
    \/ \E s \in Sessions : YCheck(s)
    \/ \E s \in Sessions : YInsert(s)
    \/ \E s \in Sessions : YAdmit(s)
    \/ \E s \in Sessions : YCommit(s)
    \/ \E s \in Sessions : YRollback(s)
    \/ \E s \in Sessions, c \in CourseIDs : CanSend /\ NStart(s, c)
    \/ \E s \in Sessions : NCheck(s)
    \/ \E s \in Sessions : NDelete(s)
    \/ \E s \in Sessions : NDecrement(s)
    \/ \E c \in CourseIDs : PropagateRun(c)
    \/ \E s \in Sessions, c \in CourseIDs : ForwardTake(s, c)
    \/ \E s \in Sessions, c \in CourseIDs : LoopUpdate(s, c)

SpecCoalesce == InitCoalesce /\ [][NextCoalesce]_vars

(* The WebSocket endpoint: connections with any cookie, their sessions up  *)
(* to the loop, and their teardown.                                        *)
NextWs ==
    \/ \E s \in Sessions, cookie \in {"missing", "unknown", "dberror"} :
           HandleWs(s, cookie, Anon)
    \/ \E s \in Sessions, u \in Users : HandleWs(s, "valid", u)
    \/ \E s \in Sessions : HandleConnStore(s)
    \/ \E s \in Sessions : HandleConnSubscribe(s)
    \/ \E s \in Sessions : HandleConnPopulate(s)
    \/ \E s \in Sessions : HandleConnPopulateFail(s)
    \/ \E s \in Sessions : LoopCancelled(s)
    \/ \E s \in Sessions : LoopRecvErr(s)
    \/ \E s \in Sessions : DeferUsems(s)
    \/ \E s \in Sessions : DeferCancel(s)

SpecWs == Init /\ [][NextWs]_vars

(* Cancellation: connections of any user, Y handlers over a database that *)
(* fails only on a done context, and the reader goroutines.                *)
NextCancel ==
    \/ \E s \in Sessions, u \in Users : HandleConnLoad(s, u)
    \/ \E s \in Sessions : HandleConnStore(s)
    \/ \E s \in Sessions : HandleConnSubscribe(s)
    \/ \E s \in Sessions : HandleConnPopulate(s)
    \/ \E s \in Sessions : cancelled[s] /\ HandleConnPopulateFail(s)
    \/ \E s \in Sessions : LoopCancelled(s)
    \/ \E s \in Sessions : DeferUsems(s)
    \/ \E s \in Sessions : DeferCancel(s)
    \/ \E s \in Sessions, c \in CourseIDs : YStart(s, c)
    \/ \E s \in Sessions : YCheck(s)
    \/ \E s \in Sessions : YInsert(s)
    \/ \E s \in Sessions : cancelled[s] /\ YInsertFail(s)
    \/ \E s \in Sessions : YAdmit(s)
    \/ \E s \in Sessions : YCommit(s)
    \/ \E s \in Sessions : cancelled[s] /\ YCommitFail(s)
    \/ \E s \in Sessions : YRollback(s)
    \/ \E s \in Sessions, got \in {"error", "frame"} : ReaderCancelled(s, got)

SpecCancel == InitNotify /\ [][NextCancel]_vars

(* Requests for ids in and out of the catalogue: one connection per user   *)
(* over any clean table, with a database that does not fail.               *)
InitUnknown ==
    /\ \E rows \in CleanRows : InitWith(rows, FALSE)
    /\ state = 2

NextUnknown ==
    \/ \E s \in Sessions \cap Users : HandleConnLoad(s, s)
    \/ \E s \in Sessions : HandleConnStore(s)
    \/ \E s \in Sessions : HandleConnSubscribe(s)
    \/ \E s \in Sessions : HandleConnPopulate(s)
    \/ \E s \in Sessions : DeferUsems(s)
    \/ \E s \in Sessions : DeferCancel(s)
    \/ \E s \in Sessions, c \in CourseIDs \cup {NoCourse} : YStart(s, c)
    \/ \E s \in Sessions : YCheck(s)
    \/ \E s \in Sessions : YInsert(s)
    \/ \E s \in Sessions : YAdmit(s)
    \/ \E s \in Sessions : YCommit(s)
    \/ \E s \in Sessions : YRollback(s)

SpecUnknown == InitUnknown /\ [][NextUnknown]_vars

(* Malformed requests: one connection per user over any clean table, Y and *)
(* N frames that are well formed, of the wrong arity or with an id that is *)
(* not an integer, and a database that does not fail.                      *)
Requests == CourseIDs \cup {BadArity, BadID}

NextBad ==
    \/ \E s \in Sessions \cap Users : HandleConnLoad(s, s)
    \/ \E s \in Sessions : HandleConnStore(s)
    \/ \E s \in Sessions : HandleConnSubscribe(s)
    \/ \E s \in Sessions : HandleConnPopulate(s)
    \/ \E s \in Sessions : DeferUsems(s)
    \/ \E s \in Sessions : DeferCancel(s)
    \/ \E s \in Sessions, r \in Requests : YStart(s, r)
    \/ \E s \in Sessions : YCheck(s)
    \/ \E s \in Sessions : YInsert(s)
    \/ \E s \in Sessions : YAdmit(s)
    \/ \E s \in Sessions : YCommit(s)
    \/ \E s \in Sessions : YRollback(s)
    \/ \E s \in Sessions, r \in Requests : NStart(s, r)
    \/ \E s \in Sessions : NCheck(s)
    \/ \E s \in Sessions : NDelete(s)
    \/ \E s \in Sessions : NDecrement(s)

SpecBad == InitUnknown /\ [][NextBad]_vars

(* Commit failures: one connection per user over any clean table, Y and N  *)
(* requests, a database whose only failure is that of tx.Commit, and the   *)
(* spawned propagate goroutines.                                           *)
NextCommit ==
    \/ \E s \in Sessions \cap Users : HandleConnLoad(s, s)
    \/ \E s \in Sessions : HandleConnStore(s)
    \/ \E s \in Sessions : HandleConnSubscribe(s)
    \/ \E s \in Sessions : HandleConnPopulate(s)
    \/ \E s \in Sessions : DeferUsems(s)
    \/ \E s \in Sessions : DeferCancel(s)
    \/ \E s \in Sessions, c \in CourseIDs : YStart(s, c)
    \/ \E s \in Sessions : YCheck(s)
    \/ \E s \in Sessions : YInsert(s)
    \/ \E s \in Sessions : YAdmit(s)
    \/ \E s \in Sessions : YCommit(s)
    \/ \E s \in Sessions : YCommitFail(s)
    \/ \E s \in Sessions : YRollback(s)
    \/ \E s \in Sessions, c \in CourseIDs : NStart(s, c)
    \/ \E s \in Sessions : NCheck(s)
    \/ \E s \in Sessions : NDelete(s)
    \/ \E s \in Sessions : NDecrement(s)
    \/ \E c \in CourseIDs : PropagateRun(c)

SpecCommit == InitUnknown /\ [][NextCommit]_vars

(* splitMsg applied to every frame of at most MaxFrame bytes.              *)
InitSplit ==
    /\ InitCore({}, FALSE)
    /\ state = 2
    /\ msg \in Frames

NextSplit == SplitMsg

SpecSplit == InitSplit /\ [][NextSplit]_vars

(* Convergence: connections of user 1, at most MaxReqs requests for        *)
(* course 1, a database that fails only on a done context, the propagate   *)
(* goroutines, the forwarders and the M frames; hist is kept.              *)
NextConverge ==
    \/ \E s \in Sessions : HandleConnLoad(s, 1)
    \/ \E s \in Sessions : SessionStep(s)
    \/ \E s \in Sessions : Started < MaxReqs /\ YStart(s, 1)
    \/ \E s \in Sessions : Started < MaxReqs /\ NStart(s, 1)
    \/ \E c \in CourseIDs : PropagateRun(c)
    \/ \E s \in Sessions, c \in CourseIDs : ForwardTake(s, c)
    \/ \E s \in Sessions, c \in CourseIDs : LoopUpdate(s, c)

SpecConverge == InitCoalesce /\ [][NextConverge]_vars

(* The goroutines of a session: connections of user 1, Y requests for      *)
(* course 1 while it is untouched, transport errors, a database that fails *)
(* only on a done context, the propagate goroutines, the forwarders and    *)
(* the readers up to their return.                                         *)
(* The steps of the main goroutine of session s that such a run can take:  *)
(* no N is sent, and a Y for an untouched course is never declined.        *)
TaskStep(s) ==
    \/ HandleConnStore(s)
    \/ HandleConnSubscribe(s)
    \/ HandleConnPopulate(s)
    \/ LoopCancelled(s)
    \/ DeferUsems(s)
    \/ DeferCancel(s)
    \/ YCheck(s)
    \/ YInsert(s)
    \/ YAdmit(s)
    \/ YCommit(s)
    \/ cancelled[s] /\ HandleConnPopulateFail(s)
    \/ cancelled[s] /\ YInsertFail(s)
    \/ cancelled[s] /\ YCommitFail(s)

NextTasks ==
    \/ \E s \in Sessions : HandleConnLoad(s, 1)
    \/ \E s \in Sessions : TaskStep(s)
    \/ \E s \in Sessions : LoopRecvErr(s)
    \/ \E s \in Sessions : propQ[1] = 0 /\ Selected[1] = 0 /\ YStart(s, 1)
    \/ \E c \in CourseIDs : PropagateRun(c)
    \/ \E s \in Sessions, c \in CourseIDs : ForwardTake(s, c)
    \/ \E s \in Sessions, c \in CourseIDs : LoopUpdate(s, c)
    \/ \E s \in Sessions : ReaderReturn(s)
    \/ \E s \in Sessions, c \in CourseIDs : ForwarderReturn(s, c)

(* The main goroutine of a session runs when it can, and so do its reader  *)
(* and its forwarders.                                                     *)
FairTasks ==
    /\ \A s \in Sessions : WF_vars(TaskStep(s))
    /\ \A s \in Sessions : WF_vars(ReaderReturn(s))
    /\ \A s \in Sessions, c \in CourseIDs : WF_vars(ForwarderReturn(s, c))

SpecTasks == InitNotify /\ [][NextTasks]_vars /\ FairTasks

(* The usems of one session, each with any sequence of set() calls and     *)
(* receives.                                                               *)
NextUsem ==
    \/ \E c \in CourseIDs : UsemSet(c)
    \/ \E c \in CourseIDs : UsemWait(c)

SpecUsem == InitNotify /\ [][NextUsem]_vars

(* ------------------------- type invariant ------------------------------ *)
TypeOK ==
    /\ state \in 0..2
    /\ dbState \in 0..2
    /\ Selected \in [CourseIDs -> Nat]
    /\ choices \subseteq (Users \X CourseIDs)
    /\ cancelPool \in [UserIDs -> 0..NumSessions]
    /\ usemOwner \in [UserIDs -> 0..NumSessions]
    /\ usemCount \in Int


(* ======================= properties ==================================== *)
(* Committed rows of course c.                                             *)
RowsOf(c) == {u \in Users : <<u, c>> \in choices}

(* No Y or N handler is in flight.                                         *)
Quiescent == \A s \in Sessions : pc[s] \notin InHandler

(* C1: in every reachable state every course has 0 <= Selected <= Max.     *)
C1_SelectedWithinMax ==
    \A c \in CourseIDs : 0 <= Selected[c] /\ Selected[c] <= CourseMax(c)

(* A full course declines a request while another seat holder exists.      *)
C1_Witness ==
    \E c \in CourseIDs, s \in Sessions :
        Selected[c] = CourseMax(c) /\ pc[s] = "Yrollback" /\ req[s] = c

(* C2: at any time the committed rows of a course number at most its Max.  *)
C2_ChoicesWithinMax ==
    \A c \in CourseIDs : Cardinality(RowsOf(c)) <= CourseMax(c)

(* All seats of a course are committed and a user was answered Full.       *)
C2_Witness ==
    \E c \in CourseIDs, s \in Sessions :
        /\ Cardinality(RowsOf(c)) = CourseMax(c)
        /\ reply[s] = <<"R:Full", c>>

(* C3: with no handler in flight, Selected equals the number of committed  *)
(* rows of every course.                                                   *)
C3_SelectedEqualsRows ==
    Quiescent => \A c \in CourseIDs : Selected[c] = Cardinality(RowsOf(c))

(* Quiescent again after a commit failure was compensated, with a seat of  *)
(* another course still held.                                              *)
C3_Witness ==
    /\ Quiescent
    /\ \E s \in Sessions : reply[s] = <<"E:commit", 0>>
    /\ \E c \in CourseIDs : Selected[c] > 0

(* C4: for every user and group at most one committed row of the user has  *)
(* a course of that group.                                                 *)
C4_GroupExclusive ==
    \A u \in Users, c \in CourseIDs, d \in CourseIDs :
        (<<u, c>> \in choices /\ <<u, d>> \in choices
            /\ CourseGroup(c) = CourseGroup(d)) => c = d


(* C6: a "Y id" of a user who already holds id is answered "Y id" and      *)
(* leaves Selected and the rows as they were.                              *)
C6_IdempotentY ==
    \A i \in 2..Len(hist) :
        LET e == hist[i]
            p == hist[i - 1]
        IN  (e.verb = "Y" /\ <<user[e.s], e.c>> \in p.rows)
                => (e.r = "Y" /\ e.sel = p.sel /\ e.rows = p.rows)

(* C7: the handler of "N id" for a course the user does not hold ends at   *)
(* the DELETE: it replies "N id" when it returns to the loop and changes   *)
(* neither Selected, the rows, userCourseGroups nor any signal.            *)
C7_IdempotentN ==
    [][\A s \in Sessions :
          (pc[s] = "Ndelete" /\ pc'[s] # "Ndelete"
              /\ <<user[s], req[s]>> \notin choices)
          => /\ pc'[s] \in {"loop", "deferUsems"}
             /\ pc'[s] = "loop" => reply'[s] = <<"N", req[s]>>
             /\ UNCHANGED <<Selected, choices, userCourseGroups, propQ, usemSet>>
      ]_vars

(* "N id" was answered for a course that another user holds.               *)
C7_Witness ==
    \E s \in Sessions, c \in CourseIDs :
        /\ pc[s] = "loop"
        /\ reply[s] = <<"N", c>>
        /\ userCourseGroups[s] = {}
        /\ \E u \in Users : u # user[s] /\ <<u, c>> \in choices

(* C8: in one session, a successful "Y id" followed by "N id" is answered  *)
(* "N id" and restores Selected, the rows and userCourseGroups; a third    *)
(* "Y id" is answered "Y id" with Selected one above the start, and a      *)
(* third Y for another course of the group with a free seat is answered Y. *)
C8_ReleaseAndRejoin ==
    \A i \in 2..(Len(hist) - 1) :
        LET p == hist[i - 1]
            a == hist[i]
            b == hist[i + 1]
        IN  (a.verb = "Y" /\ a.r = "Y" /\ <<user[a.s], a.c>> \notin p.rows
                /\ b.verb = "N" /\ b.c = a.c)
            => /\ b.r = "N"
               /\ b.sel = p.sel /\ b.rows = p.rows /\ b.grp = p.grp
               /\ (i + 2 <= Len(hist) /\ hist[i + 2].verb = "Y")
                  => LET d == hist[i + 2]
                     IN  /\ d.c = a.c
                            => d.r = "Y" /\ d.sel[d.c] = p.sel[d.c] + 1
                         /\ (CourseGroup(d.c) = CourseGroup(a.c)
                                /\ p.sel[d.c] < CourseMax(d.c))
                            => d.r = "Y"

(* Y 1, N 1, Y 1 were all answered positively.                             *)
C8_Witness ==
    /\ Len(hist) >= 4
    /\ \E i \in 2..(Len(hist) - 2) :
          /\ hist[i].verb = "Y" /\ hist[i].r = "Y"
          /\ hist[i + 1].verb = "N" /\ hist[i + 1].c = hist[i].c
          /\ hist[i + 1].r = "N"
          /\ hist[i + 2].verb = "Y" /\ hist[i + 2].c = hist[i].c
          /\ hist[i + 2].r = "Y"


(* The answered Y requests for course c, and those answered with frame r.  *)
RaceReqs(c) == {i \in 1..Len(hist) : hist[i].verb = "Y" /\ hist[i].c = c}
RaceAnswers(c, r) == {i \in RaceReqs(c) : hist[i].r = r}
RaceMin(a, b) == IF a < b THEN a ELSE b

(* C5: when n users with no holdings race with one "Y c" each for a course *)
(* with k free seats, min(n, k) are answered "Y c" and the others          *)
(* "R c :Full"; Selected and the rows of c have grown by min(n, k).        *)
C5_FullCourseRace ==
    (\A s \in Sessions \cap Users : Answered(s))
    => \A c \in CourseIDs :
          LET n == Cardinality(RaceReqs(c))
              k == CourseMax(c)
          IN  /\ Cardinality(RaceAnswers(c, "Y")) = RaceMin(n, k)
              /\ Cardinality(RaceAnswers(c, "R:Full")) = n - RaceMin(n, k)
              /\ Selected[c] = RaceMin(n, k)
              /\ Cardinality(RowsOf(c)) = RaceMin(n, k)

(* More users than seats raced for one course and all were answered.       *)
C5_Witness ==
    /\ \A s \in Sessions \cap Users : Answered(s)
    /\ \E c \in CourseIDs :
          /\ Cardinality(RaceReqs(c)) > CourseMax(c)
          /\ RaceAnswers(c, "R:Full") # {}


(* A step of session s that takes a request off recv, and a step of s      *)
(* inside a Y or N handler.                                                *)
RequestStep(s) ==
    /\ pc[s] = "loop"
    /\ \/ pc'[s] \in {"Yctx", "Nctx"}
       \/ pc'[s] = "loop" /\ reply'[s] # reply[s]
HandlerStep(s) == pc[s] \in InHandler /\ pc'[s] # pc[s]

(* C9: while the mode is 0 or 1 every Y or N request is answered           *)
(* "E :Course selections are not open", and no handler step, also of a     *)
(* handler that started while the mode was open, changes the rows or a     *)
(* Selected counter or answers "Y id" or "N id".                           *)
C9_ModeGating ==
    [][\A s \in Sessions :
          state \in {0, 1}
          => /\ RequestStep(s)
                => pc'[s] = "loop" /\ reply'[s] = <<"E:not open", 0>>
             /\ HandlerStep(s)
                => /\ UNCHANGED <<choices, Selected>>
                   /\ reply'[s][1] \notin {"Y", "N"}
      ]_vars

(* C10: a session that has received STOP (and no START since) has every    *)
(* further Y or N answered "E :Course selections are not open"; none gets  *)
(* past the mode check.                                                    *)
C10_FreezeOrdering ==
    [][\A s \in Sessions :
          (sawStop[s] /\ RequestStep(s))
          => pc'[s] = "loop" /\ reply'[s] = <<"E:not open", 0>>
      ]_vars


(* C11: a setState(ctx, 0) call invokes the cancel func of every session   *)
(* that cancelPool holds when it runs.                                     *)
C11_MassClose ==
    [][(admPc = "idle" /\ admPc' = "save" /\ admNew' = 0)
          => \A u \in UserIDs :
                 cancelPool[u] # 0 => cancelled'[cancelPool[u]]
      ]_vars


(* C12: a setState call whose saveStateValue fails leaves the mode cell at *)
(* its previous value; one that returns nil leaves it equal to the new,    *)
(* persisted value; with no setState running the mode cell equals the      *)
(* persisted mode.                                                         *)
C12_ModePersisted ==
    [][/\ (admPc = "save" /\ admPc' = "idle")
             => state' = state /\ dbState' = dbState
       /\ (admPc = "store" /\ admPc' = "idle")
             => state' = admNew /\ dbState' = admNew
       /\ admPc' = "idle" => state' = dbState'
      ]_vars

(* A setState(1) call has broadcast STOP and failed to persist: the mode   *)
(* is still open, in memory and in the database.                           *)
C12_Witness ==
    /\ admPc = "idle"
    /\ state = 2 /\ dbState = 2
    /\ \E s \in Sessions : sawStop[s]


(* C13: of two sessions of one user that are both in their select loop, at *)
(* least one has had its cancel func invoked.                              *)
C13_SingleSession ==
    \A s \in Sessions, t \in Sessions :
        (s # t /\ user[s] = user[t] /\ Attached(s) /\ Attached(t))
            => cancelled[s] \/ cancelled[t]


(* Positions of a session between its cancelPool.Store and its             *)
(* CompareAndDelete.                                                       *)
Registered == {"subscribe", "populate", "loop", "deferUsems", "deferCancel"}
                  \cup InHandler

(* C14: the teardown of a session removes the cancelPool entry of its user *)
(* iff that entry is the one the session stored and leaves every other     *)
(* entry as it was; every entry belongs to a session of that user that has *)
(* stored it and not yet returned, so none remains once all sessions of a  *)
(* user have returned.                                                     *)
C14_RegistryOwnership ==
    [][/\ \A s \in Sessions :
              (pc[s] = "deferCancel" /\ pc'[s] = "closed")
              => \A u \in UserIDs :
                     cancelPool'[u] = IF u = user[s] /\ cancelPool[u] = s
                                      THEN 0
                                      ELSE cancelPool[u]
       /\ \A u \in UserIDs :
              cancelPool'[u] # 0
              => /\ user'[cancelPool'[u]] = u
                 /\ pc'[cancelPool'[u]] \in Registered
      ]_vars

(* A preempted session has returned and the entry of its successor is      *)
(* still in cancelPool.                                                    *)
C14_Witness ==
    \E s \in Sessions, t \in Sessions :
        /\ s # t /\ user[s] = user[t]
        /\ pc[s] = "closed"
        /\ cancelPool[user[t]] = t
        /\ Attached(t)


(* C15: a session that is subscribed and not cancelled when the propagate  *)
(* goroutine of a change to course c runs is written an "M c <selected>"   *)
(* frame, unless it is cancelled or ends first.                            *)
C15_EventualUpdate ==
    \A s \in Sessions, c \in CourseIDs :
        (c \in owed[s] /\ Subscribed(s) /\ ~cancelled[s])
            ~> (c \notin owed[s] \/ ~Subscribed(s) \/ cancelled[s])


(* The successful changes to course c answered so far, those admitted and  *)
(* not yet answered, and the M frames for c written to session s.          *)
ChangesDone(c) ==
    Cardinality({i \in 1..Len(hist) :
                    hist[i].verb \in {"Y", "N"} /\ hist[i].c = c /\ hist[i].chg})
ChangesInFlight(c) ==
    Cardinality({s \in Sessions : pc[s] = "Ycommit" /\ req[s] = c})
FramesM(s, c) ==
    Cardinality({i \in 1..Len(hist) :
                    hist[i].verb = "M" /\ hist[i].s = s /\ hist[i].c = c})

(* Nothing of the signal path of course c is pending.                      *)
Drained(c) ==
    /\ propQ[c] = 0
    /\ ChangesInFlight(c) = 0
    /\ \A s \in Sessions : c \notin usemSet[s] /\ c \notin fwd[s]

(* C16: K successful changes to a course cause at most K M frames for it   *)
(* on every subscribed session, and at least one once the signal path has  *)
(* drained.                                                                *)
C16_Coalescing ==
    \A s \in Sessions \cap Users, c \in CourseIDs :
        /\ FramesM(s, c) <= ChangesDone(c) + ChangesInFlight(c)
        /\ (Drained(c) /\ ChangesDone(c) >= 1 /\ Attached(s))
              => FramesM(s, c) >= 1

(* Two changes to one course were coalesced into a single M frame on one   *)
(* session and delivered one by one on another.                            *)
C16_Witness ==
    \E c \in CourseIDs, s \in Sessions, t \in Sessions :
        /\ Drained(c)
        /\ ChangesDone(c) = 2
        /\ FramesM(s, c) = 1
        /\ FramesM(t, c) = 2


(* C17: a connection that handleWs answered "U" or "E :Database error" is  *)
(* closed without entering handleConn: it stores no cancel func and no     *)
(* usem.                                                                   *)
C17_UnauthenticatedClosed ==
    \A s \in Sessions :
        auth[s] \in {"U", "E:Database error"}
        => /\ pc[s] = "closed"
           /\ \A u \in UserIDs : cancelPool[u] # s /\ usemOwner[u] # s


(* C18: every frame a session writes on observing that newCtx is done, in  *)
(* its main goroutine or in its reader, is "E :Context canceled".          *)
C18_CancelFrame ==
    \A s \in Sessions :
        \A f \in final[s] :
            f[1] \in {"main", "reader"} => f[2] = "E :Context canceled"


(* C19: the handler of a "Y id" whose id is not in the catalogue answers   *)
(* "R id :No such course" and returns to the loop, leaving the rows, the   *)
(* counters and userCourseGroups as they were.                             *)
C19_NoSuchCourse ==
    [][\A s \in Sessions :
          (pc[s] = "Yctx" /\ req[s] \notin CourseIDs /\ ~cancelled[s]
              /\ pc'[s] # "Yctx")
          => /\ pc'[s] = "loop"
             /\ reply'[s] = <<"R:No such course", req[s]>>
             /\ UNCHANGED <<choices, Selected, userCourseGroups>>
      ]_vars


(* The fields of frame b: its parts between spaces, in order, except that  *)
(* a part that follows a space and begins with ":" is the whole rest of b  *)
(* without that ":" and is the last field.                                 *)
RECURSIVE FieldsOf(_)
FieldsOf(b) ==
    IF \A i \in 1..Len(b) : b[i] # " "
    THEN <<b>>
    ELSE LET k == CHOOSE i \in 1..Len(b) :
                      b[i] = " " /\ \A j \in 1..(i - 1) : b[j] # " "
             head == SubSeq(b, 1, k - 1)
             rest == SubSeq(b, k + 1, Len(b))
         IN  IF rest # <<>> /\ rest[1] = ":"
             THEN <<head, Tail(rest)>>
             ELSE <<head>> \o FieldsOf(rest)

(* C20: splitMsg returns for every frame, and returns its fields.          *)
C20_SplitMsg ==
    parsed # NotParsed
        => parsed.st = "ok" /\ parsed.mar = FieldsOf(msg)


(* C21: the handler of a malformed Y or N (wrong arity or an id that is    *)
(* not an integer, mode open) answers with an E frame, changes no row, no  *)
(* Selected counter and no userCourseGroups, and returns to the loop,      *)
(* where the session handles its later frames.                             *)
C21_MalformedContinues ==
    [][\A s \in Sessions :
          (pc[s] \in {"Yctx", "Nctx"} /\ req[s] \in {BadArity, BadID}
              /\ ~cancelled[s] /\ pc'[s] # pc[s])
          => /\ reply'[s][1] \in {"E:Invalid number of arguments for Y",
                                  "E:Invalid number of arguments for N",
                                  "E:Course ID must be an integer"}
             /\ UNCHANGED <<choices, Selected, userCourseGroups>>
             /\ pc'[s] = "loop"
      ]_vars


(* C22: when the commit of an admitted Y fails, the handler's step takes   *)
(* Selected of the course back by one and spawns a propagate for it,       *)
(* commits no row, leaves userCourseGroups alone, writes no "Y id" and     *)
(* makes handleConn return after an E frame.                               *)
C22_CommitFailure ==
    [][\A s \in Sessions :
          (pc[s] = "Ycommit" /\ pc'[s] # "Ycommit"
              /\ <<user[s], req[s]>> \notin choices')
          => /\ Selected' = [Selected EXCEPT ![req[s]] = @ - 1]
             /\ Selected[req[s]] > 0
             /\ propQ'[req[s]] > 0
             /\ choices' = choices
             /\ userCourseGroups' = userCourseGroups
             /\ pc'[s] = "deferUsems"
             /\ reply'[s] = <<"E:commit", 0>>
      ]_vars

(* A commit has failed after the propagate of its admission had run: the   *)
(* counter is back at the number of rows, a new propagate is pending and   *)
(* the session is leaving.                                                 *)
C22_Witness ==
    \E s \in Sessions, c \in CourseIDs :
        /\ pc[s] = "deferUsems"
        /\ reply[s] = <<"E:commit", 0>>
        /\ propQ[c] = 1
        /\ c \in usemSet[s]
        /\ Selected[c] = Cardinality(RowsOf(c))
        /\ <<user[s], c>> \notin choices


(* C23: an admission check that finds Selected = Max declines, and the     *)
(* declined handler answers "R id :Full" and returns to the loop; neither  *)
(* step changes Selected, the rows or userCourseGroups or signals anyone.  *)
C23_Declined ==
    [][\A s \in Sessions :
          /\ (pc[s] = "Yadmit" /\ pc'[s] # "Yadmit"
                  /\ Selected[req[s]] = CourseMax(req[s]))
             => /\ pc'[s] = "Yrollback"
                /\ UNCHANGED <<Selected, choices, userCourseGroups, propQ,
                               usemSet>>
          /\ (pc[s] = "Yrollback" /\ pc'[s] # "Yrollback")
             => /\ pc'[s] = "loop"
                /\ reply'[s] = <<"R:Full", req[s]>>
                /\ UNCHANGED <<Selected, choices, userCourseGroups, propQ,
                               usemSet>>
      ]_vars

(* A session was answered Full for a course whose only seat another user   *)
(* holds, with no signal pending anywhere.                                 *)
C23_Witness ==
    \E s \in Sessions, c \in CourseIDs :
        /\ pc[s] = "loop"
        /\ reply[s] = <<"R:Full", c>>
        /\ Selected[c] = CourseMax(c)
        /\ userCourseGroups[s] = {}
        /\ \A d \in CourseIDs : propQ[d] = 0
        /\ \A t \in Sessions : usemSet[t] = {}


(* C24: the propagate goroutine spawned for an admission signals nobody    *)
(* while the admitted row is uncommitted: as long as a session is between  *)
(* its admission and the return of tx.Commit, the goroutine of that        *)
(* admission is still pending.                                             *)
C24_SignalAfterCommit ==
    \A c \in CourseIDs : ChangesInFlight(c) <= propQ[c]


(* Sessions between their usemCount addition and their deferred            *)
(* subtraction.                                                            *)
Counted == {s \in Sessions : Subscribed(s) \/ pc[s] = "deferUsems"}

(* C25: usemCount is never negative, equals numCourses times the number of *)
(* sessions between subscription and teardown, whatever path a session     *)
(* took out of handleConn, and is 0 when no such session exists.           *)
C25_UsemCount ==
    /\ usemCount >= 0
    /\ usemCount = numCourses * Cardinality(Counted)
    /\ (\A s \in Sessions : pc[s] \in {"free", "closed"}) => usemCount = 0

(* One session has left through a populate failure and subtracted its      *)
(* share while another one is in its loop.                                 *)
C25_Witness ==
    \E s \in Sessions, t \in Sessions :
        /\ pc[s] = "deferCancel"
        /\ reply[s] = <<"E:populate", 0>>
        /\ Attached(t)
        /\ usemCount = numCourses


(* C26: the deferred teardown of a session removes from course.Usems the   *)
(* usems that this session stored and no others, so the exit of a          *)
(* preempted session leaves the usems of its successor in place; and every *)
(* entry of course.Usems belongs to a session that has not yet run its     *)
(* teardown.                                                               *)
C26_SubscriptionTeardown ==
    [][/\ \A s \in Sessions :
              (pc[s] = "deferUsems" /\ pc'[s] = "deferCancel")
              => \A u \in UserIDs :
                     usemOwner'[u] = IF usemOwner[u] = s
                                     THEN 0
                                     ELSE usemOwner[u]
       /\ \A u \in UserIDs :
              usemOwner'[u] # 0
              => /\ user'[usemOwner'[u]] = u
                 /\ usemOwner'[u] \in {s \in Sessions :
                                          Subscribed(s)' \/ pc'[s] = "deferUsems"}
      ]_vars


(* C27: set() can always be called and returns; the channel of a usem      *)
(* holds at most one item; after any number >= 1 of set() calls since the  *)
(* last receive exactly one receive can return, and with no set() since    *)
(* the last receive none can.                                              *)
C27_UsemT ==
    \A c \in CourseIDs :
        /\ sets[c] < MaxSets => ENABLED UsemSet(c)
        /\ ch[c] <= 1
        /\ ch[c] = IF sets[c] >= 1 THEN 1 ELSE 0
        /\ wakes[c] < MaxWakes => ((ENABLED UsemWait(c)) <=> sets[c] >= 1)

(* After an earlier receive, set() was called three times and one wake is  *)
(* pending.                                                                *)
C27_Witness ==
    \E c \in CourseIDs :
        wakes[c] >= 1 /\ sets[c] = MaxSets /\ ch[c] = 1


(* A step in which session s applies a decrement to Selected of its        *)
(* request's course: the release of a removed row, or the compensation of  *)
(* a failed commit.                                                        *)
DecrementStep(s) ==
    \/ pc[s] = "Ndecr" /\ pc'[s] # "Ndecr"
    \/ pc[s] = "Ycommit" /\ pc'[s] = "deferUsems"

(* C28: in every reachable state the committed rows of a course number at  *)
(* most its Selected, and every decrement is applied to a counter that is  *)
(* at least 1 and takes it down by one.                                    *)
C28_NoUnderflow ==
    [][/\ \A c \in CourseIDs :
              /\ Cardinality(RowsOf(c)) <= Selected[c]
              /\ Cardinality({u \in Users : <<u, c>> \in choices'}) <= Selected'[c]
       /\ \A s \in Sessions :
              DecrementStep(s)
              => /\ Selected[req[s]] >= 1
                 /\ Selected'[req[s]] = Selected[req[s]] - 1
      ]_vars

(* A seat was taken and released again with no session gone: Selected is   *)
(* back at 0 with no row left.                                             *)
C28_Witness ==
    \E s \in Sessions, c \in CourseIDs :
        /\ reply[s] = <<"N", c>>
        /\ Selected[c] = 0
        /\ RowsOf(c) = {}
        /\ propQ[c] = 2
        /\ \A t \in Sessions : pc[t] \in {"free", "loop"}


(* The M frames for course c written to session s, and the Selected value  *)
(* the last of them carried.                                               *)
IndexM(s, c) ==
    {i \in 1..Len(hist) :
        hist[i].verb = "M" /\ hist[i].s = s /\ hist[i].c = c}
LastM(s, c) ==
    hist[CHOOSE i \in IndexM(s, c) : \A j \in IndexM(s, c) : j <= i].sel[c]

(* The changes to course c have stopped and their signals have all been    *)
(* consumed.                                                               *)
Settled(c) ==
    /\ Drained(c)
    /\ \A s \in Sessions : pc[s] \in InHandler => req[s] # c

(* C29: once the changes to a course have stopped and its signals are      *)
(* consumed, the last M frame that a session in its loop, not cancelled,   *)
(* was written for the course carries the final Selected.                  *)
C29_Convergence ==
    \A s \in Sessions, c \in CourseIDs :
        (Settled(c) /\ Attached(s) /\ ~cancelled[s] /\ IndexM(s, c) # {})
            => LastM(s, c) = Selected[c]


(* Session s has been cancelled or its main loop has returned.             *)
Leaving(s) ==
    cancelled[s] \/ pc[s] \in {"deferUsems", "deferCancel", "closed"}

(* C30: once a session is cancelled or its main loop has returned, its     *)
(* reader goroutine and each of its forwarder goroutines eventually        *)
(* return.                                                                 *)
C30_TaskTermination ==
    \A s \in Sessions :
        /\ (Leaving(s) /\ readerRun[s]) ~> ~readerRun[s]
        /\ \A c \in CourseIDs :
               (Leaving(s) /\ c \in fwdRun[s]) ~> (c \notin fwdRun[s])

(* A preempted session has written its cancellation frame and closed, and  *)
(* its reader and forwarders have returned, while its successor is in its  *)
(* loop with its goroutines running.                                       *)
C30_Witness ==
    \E s \in Sessions, t \in Sessions :
        /\ pc[s] = "closed"
        /\ <<"main", "E :Context canceled">> \in final[s]
        /\ ~readerRun[s] /\ fwdRun[s] = {}
        /\ cancelPool[user[t]] = t
        /\ Attached(t) /\ readerRun[t] /\ fwdRun[t] = CourseIDs


(* Session s is the only session its user has opened.                      *)
SoleSession(s) == \A t \in Sessions \ {s} : user[t] # user[s]

(* C31: between two handlers, the userCourseGroups of the only session of  *)
(* a user is the set of the groups of the courses of that user's committed *)
(* rows.                                                                   *)
C31_GroupsMirrorChoices ==
    \A s \in Sessions :
        (pc[s] = "loop" /\ SoleSession(s))
            => userCourseGroups[s] = populateUserCourseGroups(user[s])

(* Two sessions of different users are between handlers: one has handled   *)
(* no request yet and holds the group it found in the table when it        *)
(* connected, the other holds the group of the course it was just given.   *)
C31_Witness ==
    \E s \in Sessions, t \in Sessions :
        /\ pc[s] = "loop" /\ pc[t] = "loop" /\ user[s] # user[t]
        /\ userCourseGroups[s] # {} /\ reply[s] = NoReply
        /\ userCourseGroups[t] # {} /\ reply[t][1] = "Y"


(* C32: a setState call that has cancelled a session, or whose STOP or     *)
(* START sessions have received, does not return an error: once its switch *)
(* has had such an effect, the return on a failed saveStateValue is no     *)
(* longer possible.                                                        *)
C32_AllOrNothing ==
    [][(/\ admPc = "idle" /\ admPc' = "save"
        /\ (cancelled' # cancelled \/ sawStop' # sawStop))
          => ~(ENABLED SetStateSaveFail)'
      ]_vars


(* C33: while the mode is 0 and no setState call is running, every session *)
(* in its select loop has had its cancel func invoked and is on its way    *)
(* out.                                                                    *)
C33_ClosedNoAccess ==
    (state = 0 /\ admPc = "idle")
        => \A s \in Sessions : Attached(s) => cancelled[s]

====
